---- MODULE Spec2Model ----
(***************************************************************************)
(* FrontMatterSequence: the generic sequence value token of the Front      *)
(* Matter codec, in its two implementations:                               *)
(*   "splice"  - src/vs/editor/common/codecs/frontMatterCodec/tokens/      *)
(*               frontMatterSequence.ts (currentTokens, Array.splice)      *)
(*   "reverse" - unnamed/part_000 (childTokens, push + length + reverse)   *)
(* part_000 declares no constructor of its own; its token storage is       *)
(* initialised as by the constructor of frontMatterSequence.ts.            *)
(*                                                                         *)
(* A token is a record [kind, text, range]; text is a sequence of          *)
(* character codes; a range is a record of four 1-based numbers.           *)
(* Arrays are heap cells: `arrays` maps an array identity to its elements, *)
(* `currentTokens` holds the identity of the array the sequence owns.      *)
(***************************************************************************)
EXTENDS Integers, Sequences, FiniteSets, TLC

\* ------------------------------------------------------------------ bounds
MaxLen == 3
MaxCol == 2
MaxLine == 2
MaxMutations == 1
TrailLen == 4

\* ------------------------------------------------------------ token model
Kinds == {"Word", "Space", "Tab", "VerticalTab", "NewLine"}

\* frontMatterSequence.ts:14-16 and the instanceof chain on line 68
VALID_SPACE_TOKENS == {"Space", "Tab", "VerticalTab"}

\* part_000:8,42  the SpacingToken base class of Space, Tab and VerticalTab
SpacingToken == {"Space", "Tab", "VerticalTab"}

\* literal text of a lexer token of each kind, as character codes
TextOf(kind) ==
  CASE kind = "Word"        -> <<97>>
    [] kind = "Space"       -> <<32>>
    [] kind = "Tab"         -> <<9>>
    [] kind = "VerticalTab" -> <<11>>
    [] kind = "NewLine"     -> <<10>>

Range(startLineNumber, startColumn, endLineNumber, endColumn) ==
  [startLineNumber |-> startLineNumber, startColumn |-> startColumn,
   endLineNumber |-> endLineNumber, endColumn |-> endColumn]

\* the range of an object that does not exist (line and column are 1-based)
NoRange == Range(0, 0, 0, 0)

\* a lexer token of `kind` at (line, col): it spans its text on that line
LexToken(kind, line, col) ==
  [kind |-> kind, text |-> TextOf(kind),
   range |-> Range(line, col, line, col + Len(TextOf(kind)))]

TokenPool(line) == {LexToken(k, line, c) : k \in Kinds, c \in 1..MaxCol}

\* new Word(range, text)
Word(range, text) == [kind |-> "Word", text |-> text, range |-> range]

\* Word.newOnLine(text, lineNumber, atColumnNumber)
Word_newOnLine(text, lineNumber, atColumnNumber) ==
  Word(Range(lineNumber, atColumnNumber, lineNumber, atColumnNumber + Len(text)), text)

\* ------------------------------------------------------- range arithmetic
\* BaseToken.fullRange asserts a non-empty list ...
fullRangeFails(tokens) == Len(tokens) = 0

\* ... and returns (first token's start, last token's end)
fullRange(tokens) ==
  Range(tokens[1].range.startLineNumber, tokens[1].range.startColumn,
        tokens[Len(tokens)].range.endLineNumber, tokens[Len(tokens)].range.endColumn)

\* BaseToken.collapseRangeToStart
collapseRangeToStart(range) ==
  Range(range.startLineNumber, range.startColumn,
        range.startLineNumber, range.startColumn)

\* BaseToken.withRange(components): the components given replace the range's
withRange(range, components) ==
  Range(components.startLineNumber, components.startColumn,
        components.endLineNumber, components.endColumn)

\* BaseToken.render: the tokens' texts joined in order
RECURSIVE render(_)
render(tokens) ==
  IF tokens = <<>> THEN <<>> ELSE Head(tokens).text \o render(Tail(tokens))

\* ----------------------------------------------------------------- state
VARIABLES
  variant,        \* which implementation of the class is running
  pc,             \* "start" | "live" (constructed) | "failed" (constructor threw)
  arrays,         \* heap: array identity -> elements
  currentTokens,  \* identity of the array behind currentTokens / childTokens
  range,          \* the token's range
  returned,       \* value returned by the last trimEnd call
  lastOp,         \* the last operation that ran
  error,          \* "none" | "InvariantViolation" (an exception was thrown)
  mutations       \* number of caller-side mutations of the constructor argument

vars == <<variant, pc, arrays, currentTokens, range, returned, lastOp, error, mutations>>

Variants == {"splice", "reverse"}

\* DarwinUpdateService (unnamed/part_001), a second object of the program
VARIABLES
  state,            \* this.state: [type, explicit, error, update]
  initialized,      \* initialize() ran: the raw updater events are listened to
  url,              \* this.url is set
  lastEvent,        \* the handler that ran last
  rawArg,           \* the argument of the last raw event (message or version)
  relaunchOptions,  \* the options of the last handleRelaunch call
  relaunched,       \* what the last handleRelaunch call returned
  quitAndInstall,   \* electron.autoUpdater.quitAndInstall() was run
  emitted,          \* the state types the last handler passed to setState
  trail             \* the last TrailLen state types passed to setState

updateVars == <<state, initialized, url, lastEvent, rawArg, relaunchOptions,
                relaunched, quitAndInstall, emitted, trail>>

allVars == <<vars, updateVars>>

\* frontMatterSequence.ts:33-35  get tokens()
tokens == IF currentTokens = "none" THEN <<>> ELSE arrays[currentTokens]

\* ------------------------------------------------------------ constructor
\* frontMatterSequence.ts:45  super(BaseToken.fullRange(tokens))
superRange_firstToken(tokenList) == tokenList[1].range

superRange(tokenList) == fullRange(tokenList)

\* frontMatterSequence.ts:47  this.currentTokens = [...tokens]
\* a fresh array with the argument's elements; the mutant keeps the argument
spreadCopy_alias(heap, src) == [heap |-> heap, ref |-> src]

spreadCopy(heap, src) ==
  [heap |-> [heap EXCEPT !["own"] = heap[src]], ref |-> "own"]

\* frontMatterSequence.ts:42-48  constructor(tokens)
Constructor ==
  /\ pc = "start"
  /\ LET arg == arrays["caller"] IN
       IF fullRangeFails(arg)
       THEN /\ pc' = "failed"
            /\ error' = "InvariantViolation"
            /\ UNCHANGED <<arrays, currentTokens, range>>
       ELSE LET c == spreadCopy(arrays, "caller") IN
            /\ pc' = "live"
            /\ range' = superRange(arg)
            /\ arrays' = c.heap
            /\ currentTokens' = c.ref
            /\ UNCHANGED error
  /\ lastOp' = "constructor"
  /\ UNCHANGED <<variant, returned, mutations>>
  /\ UNCHANGED updateVars

\* ---------------------------------------------- trimEnd, splice variant
\* frontMatterSequence.ts:68  the instanceof test of the scan
isSpace_orNewLine(token) == token.kind \in (VALID_SPACE_TOKENS \cup {"NewLine"})

isSpace(token) == token.kind \in VALID_SPACE_TOKENS

\* frontMatterSequence.ts:64-75  the backward scan; index is the 0-based JS
\* index, so the token it names is tokenList[index + 1]
scan_once(tokenList, index) ==
  IF index >= 0 /\ isSpace(tokenList[index + 1]) THEN index - 1 ELSE index

RECURSIVE scan(_, _)
scan(tokenList, index) ==
  IF index >= 0 /\ isSpace(tokenList[index + 1])
  THEN scan(tokenList, index - 1)
  ELSE index

\* frontMatterSequence.ts:77  Array.prototype.splice(start): the array keeps
\* its first `start` elements, the rest is returned in order
splice(tokenList, start) ==
  [rest    |-> SubSeq(tokenList, 1, start),
   removed |-> SubSeq(tokenList, start + 1, Len(tokenList))]

\* frontMatterSequence.ts:80-90  the sequence became empty
fillEmpty_skip(tokenList, rng) == [tokens |-> tokenList, range |-> rng]

fillEmpty_atEnd(tokenList, rng) ==
  IF Len(tokenList) = 0
  THEN [tokens |-> <<Word_newOnLine(<<>>, rng.endLineNumber, rng.endColumn)>>,
        range  |-> collapseRangeToStart(rng)]
  ELSE [tokens |-> tokenList, range |-> rng]

fillEmpty(tokenList, rng) ==
  IF Len(tokenList) = 0
  THEN LET collapsed == collapseRangeToStart(rng) IN
       [tokens |-> <<Word_newOnLine(<<>>, collapsed.startLineNumber,
                                    collapsed.startColumn)>>,
        range  |-> collapsed]
  ELSE [tokens |-> tokenList, range |-> rng]

\* frontMatterSequence.ts:93-95  this.withRange(BaseToken.fullRange(this.tokens))
recomputeRange_stale(tokenList, rng) == rng

recomputeRange_firstOnly(tokenList, rng) == withRange(rng, tokenList[1].range)

recomputeRange(tokenList, rng) == withRange(rng, fullRange(tokenList))

\* frontMatterSequence.ts:63-98  trimEnd(): the owned tokens, the range and the
\* returned list after the call; error when fullRange rejects its argument
trimEnd(tokenList, rng) ==
  LET index  == scan(tokenList, Len(tokenList) - 1)
      cut    == splice(tokenList, index + 1)
      filled == fillEmpty(cut.rest, rng)
  IN IF fullRangeFails(filled.tokens)
     THEN [tokens |-> filled.tokens, range |-> filled.range,
           returned |-> <<>>, error |-> "InvariantViolation"]
     ELSE [tokens |-> filled.tokens,
           range |-> recomputeRange(filled.tokens, filled.range),
           returned |-> cut.removed, error |-> "none"]

\* --------------------------------------------- trimEnd, reverse variant
\* part_000:38-50  the backward scan, pushing each spacing token it passes
RECURSIVE scan_part000(_, _, _)
scan_part000(tokenList, index, trimmedTokens) ==
  IF index >= 0 /\ tokenList[index + 1].kind \in SpacingToken
  THEN scan_part000(tokenList, index - 1,
                    Append(trimmedTokens, tokenList[index + 1]))
  ELSE [index |-> index, trimmedTokens |-> trimmedTokens]

\* part_000:53  this.childTokens.length = index + 1
setLength_short(tokenList, length) == SubSeq(tokenList, 1, length - 1)

setLength(tokenList, length) == SubSeq(tokenList, 1, length)

\* part_000:54-59  the sequence became empty
fillEmpty_part000_skip(tokenList, rng) == [tokens |-> tokenList, range |-> rng]

fillEmpty_part000_noCollapse(tokenList, rng) ==
  IF Len(tokenList) = 0
  THEN [tokens |-> <<Word(rng, <<>>)>>, range |-> rng]
  ELSE [tokens |-> tokenList, range |-> rng]

fillEmpty_part000(tokenList, rng) ==
  IF Len(tokenList) = 0
  THEN LET collapsed == collapseRangeToStart(rng) IN
       [tokens |-> <<Word(collapsed, <<>>)>>, range |-> collapsed]
  ELSE [tokens |-> tokenList, range |-> rng]

\* part_000:67  Array.prototype.reverse
reverse_none(list) == list

reverse(list) == [i \in 1..Len(list) |-> list[Len(list) + 1 - i]]

\* part_000:35-68  trimEnd()
trimEnd_part000(tokenList, rng) ==
  LET scanned == scan_part000(tokenList, Len(tokenList) - 1, <<>>)
      kept    == setLength(tokenList, scanned.index + 1)
      filled  == fillEmpty_part000(kept, rng)
  IN IF fullRangeFails(filled.tokens)
     THEN [tokens |-> filled.tokens, range |-> filled.range,
           returned |-> <<>>, error |-> "InvariantViolation"]
     ELSE [tokens |-> filled.tokens,
           range |-> withRange(filled.range, fullRange(filled.tokens)),
           returned |-> reverse(scanned.trimmedTokens), error |-> "none"]

\* one trimEnd call on the live object: its array, range and result
Call(result) ==
  /\ arrays' = [arrays EXCEPT ![currentTokens] = result.tokens]
  /\ range' = result.range
  /\ error' = result.error
  /\ returned' = IF result.error = "none" THEN result.returned ELSE returned
  /\ lastOp' = "trimEnd"
  /\ UNCHANGED <<variant, pc, currentTokens, mutations>>
  /\ UNCHANGED updateVars

TrimEnd ==
  /\ pc = "live"
  /\ variant = "splice"
  /\ Call(trimEnd(tokens, range))

TrimEnd_part000 ==
  /\ pc = "live"
  /\ variant = "reverse"
  /\ Call(trimEnd_part000(tokens, range))

\* ------------------------------------------------------- rendered text
\* BaseToken text of a composite token: its tokens rendered
text == render(tokens)

\* frontMatterSequence.ts:26-28  get valueTypeName()
valueTypeName_static == <<115, 101, 113, 117, 101, 110, 99, 101>>

valueTypeName == text

\* part_000:19-21  get valueTypeName()
valueTypeName_part000 == text

\* frontMatterSequence.ts:54-56  get cleanText()
cleanText_trimmed == render(SubSeq(tokens, 1, scan(tokens, Len(tokens) - 1) + 1))

cleanText == render(tokens)

\* part_000:27-29  get cleanText()
cleanText_part000 == text

\* the getter of the implementation that is running
ValueTypeName == IF variant = "splice" THEN valueTypeName ELSE valueTypeName_part000

CleanText == IF variant = "splice" THEN cleanText ELSE cleanText_part000

\* ------------------------------------------- the caller's array mutated
\* tokens the caller writes into its own array
MutTokens == {LexToken("Word", 1, 1), LexToken("Space", 1, 1)}

Mutated(callerArray) ==
  /\ pc = "live"
  /\ mutations < MaxMutations
  /\ arrays' = [arrays EXCEPT !["caller"] = callerArray]
  /\ mutations' = mutations + 1
  /\ lastOp' = "mutate"
  /\ UNCHANGED <<variant, pc, currentTokens, range, returned, error>>
  /\ UNCHANGED updateVars

CallerPush ==
  \E t \in MutTokens :
    /\ Len(arrays["caller"]) <= MaxLen
    /\ Mutated(Append(arrays["caller"], t))

CallerPop ==
  /\ Len(arrays["caller"]) > 0
  /\ Mutated(SubSeq(arrays["caller"], 1, Len(arrays["caller"]) - 1))

CallerAssign ==
  \E i \in 1..Len(arrays["caller"]), t \in MutTokens :
    /\ arrays["caller"][i] # t
    /\ Mutated([arrays["caller"] EXCEPT ![i] = t])

\* ------------------------------------------------- DarwinUpdateService
\* common/update.js  State.*: the fields a state does not have are "undefined"
\* (explicit: FALSE, as an absent field is falsy)
UpdateState(type, explicit, message, update) ==
  [type |-> type, explicit |-> explicit, error |-> message, update |-> update]

State_Uninitialized == UpdateState("Uninitialized", FALSE, "undefined", "undefined")
State_Disabled == UpdateState("Disabled", FALSE, "undefined", "undefined")
State_Idle(message) == UpdateState("Idle", FALSE, message, "undefined")
State_CheckingForUpdates(explicit) ==
  UpdateState("CheckingForUpdates", explicit, "undefined", "undefined")
State_Downloading == UpdateState("Downloading", FALSE, "undefined", "undefined")
State_Downloaded(update) == UpdateState("Downloaded", FALSE, "undefined", update)
State_Ready(update) == UpdateState("Ready", FALSE, "undefined", update)

\* inputs of the handlers
ErrorMessages == {"ENOENT", "ETIMEDOUT"}
Updates == {"1.2.3"}
ArgLists == {"undefined", "empty", "args"}
RelaunchOptions ==
  {[present |-> FALSE, addArgs |-> "undefined", removeArgs |-> "undefined"]}
    \cup [present : {TRUE}, addArgs : ArgLists, removeArgs : ArgLists]
NoOptions == [present |-> FALSE, addArgs |-> "undefined", removeArgs |-> "undefined"]

\* setState calls of one handler, appended to the trail of the last TrailLen
Trailed(types) ==
  LET all == trail \o types
  IN IF Len(all) <= TrailLen THEN all
     ELSE SubSeq(all, Len(all) - TrailLen + 1, Len(all))

\* a handler ran: the states it set, in order (none: the state is kept)
Handled(event, states) ==
  /\ ~quitAndInstall
  /\ lastEvent' = event
  /\ state' = IF states = <<>> THEN state ELSE states[Len(states)]
  /\ emitted' = [i \in 1..Len(states) |-> states[i].type]
  /\ trail' = Trailed([i \in 1..Len(states) |-> states[i].type])
  /\ UNCHANGED vars

\* part_001:56  options?.addArgs || options?.removeArgs  (an array, even an
\* empty one, is truthy; undefined is not)
hasArgs_addOnly(options) == options.present /\ options.addArgs # "undefined"

hasArgs(options) ==
  options.present /\ (options.addArgs # "undefined" \/ options.removeArgs # "undefined")

\* part_001:55-68  handleRelaunch(options): TRUE when quitAndInstall is run
handleRelaunch(options, current) ==
  IF hasArgs(options) THEN FALSE
  ELSE IF current.type # "Ready" THEN FALSE
  ELSE TRUE

HandleRelaunch ==
  \E options \in RelaunchOptions :
    /\ Handled("relaunch", <<>>)
    /\ relaunchOptions' = options
    /\ relaunched' = IF handleRelaunch(options, state) THEN "true" ELSE "false"
    /\ quitAndInstall' = handleRelaunch(options, state)
    /\ UNCHANGED <<initialized, url, rawArg>>

\* part_001:70-76  initialize(): super.initialize() leaves the service Idle
\* with its feed url, or Disabled without one; then the raw events are
\* listened to
Initialize ==
  /\ ~initialized
  /\ \E enabled \in BOOLEAN :
       /\ Handled("initialize",
                  <<IF enabled THEN State_Idle("undefined") ELSE State_Disabled>>)
       /\ url' = enabled
  /\ initialized' = TRUE
  /\ UNCHANGED <<rawArg, relaunchOptions, relaunched, quitAndInstall>>

\* part_001:83  the message shown for a raw error
onErrorMessage_always(current, err) == err

onErrorMessage(current, err) ==
  IF current.type = "CheckingForUpdates" /\ current.explicit THEN err ELSE "undefined"

\* part_001:78-85  onError(err)
OnError ==
  \E err \in ErrorMessages :
    /\ initialized
    /\ Handled("error", <<State_Idle(onErrorMessage(state, err))>>)
    /\ rawArg' = err
    /\ UNCHANGED <<initialized, url, relaunchOptions, relaunched, quitAndInstall>>

\* part_001:105-115  doCheckForUpdates(explicit)
DoCheckForUpdates ==
  \E explicit \in BOOLEAN :
    /\ Handled("check", IF ~url THEN <<>> ELSE <<State_CheckingForUpdates(explicit)>>)
    /\ UNCHANGED <<initialized, url, rawArg, relaunchOptions, relaunched, quitAndInstall>>

\* part_001:174  the guard of onUpdateAvailable
availableGuard_none(current) == TRUE

availableGuard(current) == current.type = "CheckingForUpdates"

\* part_001:173-179  onUpdateAvailable()
OnUpdateAvailable ==
  /\ initialized
  /\ Handled("update-available",
             IF availableGuard(state) THEN <<State_Downloading>> ELSE <<>>)
  /\ UNCHANGED <<initialized, url, rawArg, relaunchOptions, relaunched, quitAndInstall>>

\* part_001:181-196  onUpdateDownloaded(update)
OnUpdateDownloaded ==
  \E update \in Updates :
    /\ initialized
    /\ Handled("update-downloaded",
               IF state.type # "Downloading" THEN <<>>
               ELSE <<State_Downloaded(update), State_Ready(update)>>)
    /\ rawArg' = update
    /\ UNCHANGED <<initialized, url, relaunchOptions, relaunched, quitAndInstall>>

\* part_001:198-204  onUpdateNotAvailable()
OnUpdateNotAvailable ==
  /\ initialized
  /\ Handled("update-not-available",
             IF state.type # "CheckingForUpdates" THEN <<>>
             ELSE <<State_Idle("undefined")>>)
  /\ UNCHANGED <<initialized, url, rawArg, relaunchOptions, relaunched, quitAndInstall>>

\* the service after its constructor (part_001:38-53)
UpdateInit ==
  /\ state = State_Uninitialized
  /\ initialized = FALSE
  /\ url = FALSE
  /\ lastEvent = "none"
  /\ rawArg = "undefined"
  /\ relaunchOptions = NoOptions
  /\ relaunched = "none"
  /\ quitAndInstall = FALSE
  /\ emitted = <<>>
  /\ trail = <<"Uninitialized">>

\* ---------------------------------------------------------- specifications
InitWith(input) ==
  /\ variant \in Variants
  /\ pc = "start"
  /\ arrays = [a \in {"caller", "own"} |-> IF a = "caller" THEN input ELSE <<>>]
  /\ currentTokens = "none"
  /\ range = NoRange
  /\ returned = <<>>
  /\ lastOp = "none"
  /\ error = "none"
  /\ mutations = 0
  /\ UpdateInit

\* any list of at most MaxLen lexer tokens of one line
Init ==
  \E line \in 1..MaxLine, n \in 0..MaxLen :
    \E input \in [1..n -> TokenPool(line)] : InitWith(input)

Next == Constructor \/ TrimEnd \/ TrimEnd_part000

Spec == Init /\ [][Next]_allVars

\* the same object with a caller that goes on using its array
InitAlias ==
  \E n \in 0..MaxLen :
    \E input \in [1..n -> {LexToken(k, 1, 1) : k \in Kinds}] : InitWith(input)

NextAlias == Next \/ CallerPush \/ CallerPop \/ CallerAssign

SpecAlias == InitAlias /\ [][NextAlias]_allVars

\* the update service alone, no front matter sequence constructed
InitUpdate == variant = "splice" /\ InitWith(<<>>)

NextUpdate ==
  \/ Initialize \/ DoCheckForUpdates \/ HandleRelaunch
  \/ OnError \/ OnUpdateAvailable \/ OnUpdateDownloaded \/ OnUpdateNotAvailable

SpecUpdate == InitUpdate /\ [][NextUpdate]_allVars

\* ------------------------------------------------------------ properties
\* whitespace kinds, as the claims name them
IsWhitespace(token) == token.kind \in {"Space", "Tab", "VerticalTab"}

AllWhitespace(list) == \A i \in 1..Len(list) : IsWhitespace(list[i])

\* length of the maximal trailing run of whitespace tokens of a list
TrailingRun(list) ==
  CHOOSE k \in 0..Len(list) :
    /\ \A i \in (Len(list) - k + 1)..Len(list) : IsWhitespace(list[i])
    /\ k = Len(list) \/ ~IsWhitespace(list[Len(list) - k])

\* number of characters before token i of a list
RECURSIVE Offset(_, _)
Offset(list, i) == IF i <= 1 THEN 0 ELSE Offset(list, i - 1) + Len(list[i - 1].text)

\* the texts of a list's tokens laid end to end, character by character
JoinedText(list) ==
  [p \in 1..Offset(list, Len(list) + 1) |->
     LET i == CHOOSE j \in 1..Len(list) :
                Offset(list, j) < p /\ p <= Offset(list, j + 1)
     IN list[i].text[p - Offset(list, i)]]

SyntheticWordAt(line, col) == Word(Range(line, col, line, col), <<>>)

\* C1  Range soundness: in every state of a constructed sequence, after any
\* number of trimEnd calls, range starts where the first owned token starts
\* and ends where the last owned token ends.
RangeSoundness ==
  (pc = "live" /\ tokens # <<>>) =>
     /\ range.startLineNumber = tokens[1].range.startLineNumber
     /\ range.startColumn = tokens[1].range.startColumn
     /\ range.endLineNumber = tokens[Len(tokens)].range.endLineNumber
     /\ range.endColumn = tokens[Len(tokens)].range.endColumn

\* a trimEnd call removed trailing whitespace and left lexer tokens behind
RangeSoundness_witness ==
  /\ pc = "live" /\ lastOp = "trimEnd"
  /\ returned # <<>>
  /\ Len(tokens) >= 2
  /\ tokens[Len(tokens)].text # <<>>

\* C2 as stated: every list handed to the constructor, the empty one included,
\* yields a sequence whose owned-token list is non-empty, and so does trimEnd.
NonEmptiness_asStated ==
  /\ lastOp = "constructor" => (pc = "live" /\ tokens # <<>>)
  /\ lastOp = "trimEnd" => tokens # <<>>

\* C2  Non-emptiness: the owned-token list of a constructed sequence is never
\* empty, right after construction or after any trimEnd call; the constructor
\* rejects the empty list, so no sequence is ever built from it.
NonEmptiness ==
  /\ pc = "live" => Len(tokens) > 0
  /\ pc = "failed" => (currentTokens = "none" /\ arrays["caller"] = <<>>)

\* trimEnd emptied the list and the synthetic Word keeps it non-empty
NonEmptiness_witness ==
  /\ pc = "live" /\ lastOp = "trimEnd"
  /\ Len(returned) >= 1
  /\ Len(tokens) = 1 /\ tokens[1].text = <<>>

\* C3  Trim correctness: when some owned token is not Space/Tab/VerticalTab,
\* trimEnd returns exactly the maximal trailing whitespace run in source
\* order and keeps exactly the prefix before it, which ends in a token that is
\* not whitespace.
TrimCorrectness ==
  [][(pc = "live" /\ lastOp' = "trimEnd" /\ ~AllWhitespace(tokens)) =>
       LET n == Len(tokens)
           k == TrailingRun(tokens)
       IN /\ error' = "none"
          /\ returned' = SubSeq(tokens, n - k + 1, n)
          /\ tokens' = SubSeq(tokens, 1, n - k)
          /\ ~IsWhitespace(tokens'[Len(tokens')])]_vars

\* [NewLine, Space, Tab] was trimmed to [NewLine], returning [Space, Tab]
TrimCorrectness_witness ==
  /\ pc = "live" /\ lastOp = "trimEnd"
  /\ Len(returned) = 2
  /\ returned[1].kind = "Space" /\ returned[2].kind = "Tab"
  /\ Len(tokens) = 1 /\ tokens[1].kind = "NewLine"

\* C4  All-whitespace collapse: when every owned token is whitespace, trimEnd
\* returns them all in order and leaves one empty Word at the previous start
\* of the range, with the range collapsed to that point.
AllWhitespaceCollapse ==
  [][(pc = "live" /\ lastOp' = "trimEnd" /\ tokens # <<>> /\ AllWhitespace(tokens)) =>
       LET point == SyntheticWordAt(range.startLineNumber, range.startColumn)
       IN /\ error' = "none"
          /\ returned' = tokens
          /\ tokens' = <<point>>
          /\ range' = point.range]_vars

\* [Tab, Space] collapsed to the synthetic Word
AllWhitespaceCollapse_witness ==
  /\ pc = "live" /\ lastOp = "trimEnd"
  /\ Len(returned) = 2
  /\ returned[1].kind = "Tab" /\ returned[2].kind = "Space"
  /\ tokens = <<SyntheticWordAt(returned[1].range.startLineNumber,
                                returned[1].range.startColumn)>>
  /\ range.startColumn = range.endColumn

\* C5  Idempotence: a trimEnd call that directly follows a trimEnd call
\* returns the empty list and changes neither the owned tokens nor the range.
TrimEndIdempotent ==
  [][(pc = "live" /\ lastOp = "trimEnd" /\ lastOp' = "trimEnd") =>
       /\ error' = "none"
       /\ returned' = <<>>
       /\ tokens' = tokens
       /\ range' = range]_vars

\* a second call on the collapsed sequence: nothing returned, the synthetic
\* Word still the only token
TrimEndIdempotent_witness ==
  /\ pc = "live" /\ lastOp = "trimEnd"
  /\ returned = <<>>
  /\ Len(tokens) = 1 /\ tokens[1].kind = "Word" /\ tokens[1].text = <<>>

\* C6  No aliasing: a mutation of the array the constructor was given leaves
\* the owned tokens, the range and the rendered text as they were.
NoAliasing ==
  [][(pc = "live" /\ lastOp' = "mutate" /\ arrays'["caller"] # arrays["caller"]) =>
       /\ tokens' = tokens
       /\ range' = range
       /\ CleanText' = CleanText]_vars

\* the caller's array now differs from the untrimmed owned tokens
NoAliasing_witness ==
  /\ pc = "live" /\ lastOp = "mutate"
  /\ mutations >= 1
  /\ tokens[Len(tokens)].kind = "Word" /\ tokens[Len(tokens)].text # <<>>
  /\ Len(arrays["caller"]) # Len(tokens)

\* C7  cleanText is the owned tokens' texts laid end to end, nothing stripped.
CleanTextIsJoinedText ==
  pc = "live" => CleanText = JoinedText(tokens)

\* an untrimmed sequence with whitespace at both ends renders all of it
CleanTextIsJoinedText_witness ==
  /\ pc = "live" /\ lastOp = "constructor"
  /\ Len(tokens) = 3
  /\ tokens[1].kind = "Space" /\ tokens[3].kind = "Tab"
  /\ CleanText = <<32, 97, 9>>

\* C8 as stated: construction succeeds on every list; from the empty list it
\* yields a collapsed range, from a non-empty list the enclosing range.
Construction_asStated ==
  lastOp = "constructor" =>
     /\ pc = "live" /\ error = "none"
     /\ arrays["caller"] = <<>> =>
          (range.startLineNumber = range.endLineNumber
             /\ range.startColumn = range.endColumn)
     /\ arrays["caller"] # <<>> => range = fullRange(arrays["caller"])

\* C8  Construction: from the empty list the constructor fails with an
\* invariant violation and builds nothing; from a non-empty list it succeeds,
\* owns those tokens and its range runs from the first token's start to the
\* last token's end.
Construction ==
  lastOp = "constructor" =>
     LET arg == arrays["caller"] IN
     IF arg = <<>>
     THEN pc = "failed" /\ error = "InvariantViolation" /\ currentTokens = "none"
     ELSE /\ pc = "live" /\ error = "none"
          /\ tokens = arg
          /\ range = Range(arg[1].range.startLineNumber, arg[1].range.startColumn,
                           arg[Len(arg)].range.endLineNumber,
                           arg[Len(arg)].range.endColumn)

\* the constructor was called with the empty list
Construction_witness ==
  /\ lastOp = "constructor"
  /\ arrays["caller"] = <<>>
  /\ pc = "failed"

\* C9  valueTypeName is the rendered text of the owned tokens, and so equals
\* cleanText, in every state of a constructed sequence.
ValueTypeNameIsText ==
  pc = "live" =>
     /\ ValueTypeName = JoinedText(tokens)
     /\ ValueTypeName = CleanText

\* after a trim that removed whitespace the type name is the shorter text
ValueTypeNameIsText_witness ==
  /\ pc = "live" /\ lastOp = "trimEnd"
  /\ returned # <<>>
  /\ ValueTypeName = <<97, 10>>

\* C10  trimEnd never fails: no call raises the invariant violation of
\* fullRange, and the next call, on the owned tokens or on an empty list,
\* does not raise it either.
TrimEndNeverFails ==
  pc = "live" =>
     /\ error = "none"
     /\ \A list \in {tokens, <<>>} :
          /\ trimEnd(list, range).error = "none"
          /\ trimEnd_part000(list, range).error = "none"

\* a call that removed every owned token went through
TrimEndNeverFails_witness ==
  /\ pc = "live" /\ lastOp = "trimEnd" /\ error = "none"
  /\ Len(returned) >= 3
  /\ Len(tokens) = 1

\* position (line, column) a before-or-at position b
PosLeq(aLine, aCol, bLine, bCol) == aLine < bLine \/ (aLine = bLine /\ aCol <= bCol)

WellFormed(r) == PosLeq(r.startLineNumber, r.startColumn, r.endLineNumber, r.endColumn)

Collapsed(r) == r.startLineNumber = r.endLineNumber /\ r.startColumn = r.endColumn

\* range a lies within range b
Within(a, b) ==
  /\ PosLeq(b.startLineNumber, b.startColumn, a.startLineNumber, a.startColumn)
  /\ PosLeq(a.endLineNumber, a.endColumn, b.endLineNumber, b.endColumn)

\* well-formed ranges in non-decreasing source order: along the list neither
\* the starts nor the ends go backward
Ordered(list) ==
  /\ \A i \in 1..Len(list) : WellFormed(list[i].range)
  /\ \A i \in 1..(Len(list) - 1) :
       /\ PosLeq(list[i].range.startLineNumber, list[i].range.startColumn,
                 list[i + 1].range.startLineNumber, list[i + 1].range.startColumn)
       /\ PosLeq(list[i].range.endLineNumber, list[i].range.endColumn,
                 list[i + 1].range.endLineNumber, list[i + 1].range.endColumn)

\* C11  Containment and order: for a sequence built from well-formed tokens in
\* non-decreasing source order, in every state the range is well-formed, every
\* owned token lies within it, the owned tokens stay in order, and an empty
\* owned list with a range that is not collapsed never occurs.
ContainmentAndOrder ==
  (pc = "live" /\ Ordered(arrays["caller"])) =>
     /\ WellFormed(range)
     /\ \A i \in 1..Len(tokens) : Within(tokens[i].range, range)
     /\ Ordered(tokens)
     /\ ~(tokens = <<>> /\ ~Collapsed(range))
     /\ (Len(tokens) = 1 /\ tokens[1].text = <<>>) =>
          (Collapsed(range) /\ tokens[1].range = range)

\* two ordered whitespace tokens at different columns collapsed to the
\* synthetic Word
ContainmentAndOrder_witness ==
  /\ pc = "live" /\ lastOp = "trimEnd"
  /\ Ordered(arrays["caller"])
  /\ Len(arrays["caller"]) = 2
  /\ arrays["caller"][1].range.startColumn < arrays["caller"][2].range.startColumn
  /\ Len(tokens) = 1 /\ tokens[1].text = <<>>
  /\ Collapsed(range)

\* C12  handleRelaunch returns true and runs quitAndInstall exactly when the
\* state is Ready and the options carry neither addArgs nor removeArgs;
\* otherwise it returns false and does not run it; the state is never changed.
RelaunchHandled ==
  [][lastEvent' = "relaunch" =>
       LET pending == state.type = "Ready"
           bare    == /\ relaunchOptions'.addArgs = "undefined"
                      /\ relaunchOptions'.removeArgs = "undefined"
       IN /\ relaunched' = (IF pending /\ bare THEN "true" ELSE "false")
          /\ quitAndInstall' = (pending /\ bare)
          /\ state' = state]_updateVars

\* a relaunch with an options object that names no arguments, update pending
RelaunchHandled_witness ==
  /\ lastEvent = "relaunch"
  /\ relaunchOptions.present
  /\ state.type = "Ready"
  /\ relaunched = "true" /\ quitAndInstall

\* C13  A raw error makes the state Idle from any state; the Idle state has
\* the error's message exactly when the state before was CheckingForUpdates
\* with explicit = true, and no message otherwise.
ErrorResetsToIdle ==
  [][lastEvent' = "error" =>
       /\ state'.type = "Idle"
       /\ state'.error = (IF state.type = "CheckingForUpdates" /\ state.explicit = TRUE
                          THEN rawArg' ELSE "undefined")
       /\ rawArg' \in ErrorMessages]_updateVars

\* an error during an explicit check: the message is kept
ErrorResetsToIdle_witness ==
  /\ lastEvent = "error"
  /\ Len(trail) >= 2 /\ trail[Len(trail) - 1] = "CheckingForUpdates"
  /\ state.type = "Idle"
  /\ state.error = "ETIMEDOUT"

\* C14  Ordering: Downloading is entered only by update-available in
\* CheckingForUpdates; Downloaded and then Ready only by update-downloaded in
\* Downloading, so Ready always follows CheckingForUpdates, Downloading,
\* Downloaded; update-not-available leads to Idle only from
\* CheckingForUpdates; each of the three events in another state changes
\* nothing.
UpdateOrdering ==
  [][/\ (\E i \in 1..Len(emitted') : emitted'[i] = "Downloading") =>
          /\ lastEvent' = "update-available"
          /\ state.type = "CheckingForUpdates"
          /\ emitted' = <<"Downloading">>
     /\ (\E i \in 1..Len(emitted') : emitted'[i] \in {"Downloaded", "Ready"}) =>
          /\ lastEvent' = "update-downloaded"
          /\ state.type = "Downloading"
          /\ emitted' = <<"Downloaded", "Ready">>
     /\ state'.type = "Ready" =>
          /\ Len(trail') >= 4
          /\ SubSeq(trail', Len(trail') - 3, Len(trail'))
               = <<"CheckingForUpdates", "Downloading", "Downloaded", "Ready">>
     /\ lastEvent' = "update-not-available" =>
          IF state.type = "CheckingForUpdates"
          THEN state'.type = "Idle" /\ state'.error = "undefined"
          ELSE state' = state /\ emitted' = <<>>
     /\ (lastEvent' = "update-available" /\ state.type # "CheckingForUpdates") =>
          (state' = state /\ emitted' = <<>>)
     /\ (lastEvent' = "update-downloaded" /\ state.type # "Downloading") =>
          (state' = state /\ emitted' = <<>>)
     /\ state'.type \in {"Downloading", "Downloaded", "Ready"} =>
          (state.type = state'.type \/ emitted' # <<>>)]_updateVars

\* an update went from the check to Ready
UpdateOrdering_witness ==
  /\ lastEvent = "update-downloaded"
  /\ state.type = "Ready" /\ state.update = "1.2.3"
  /\ emitted = <<"Downloaded", "Ready">>
  /\ trail = <<"CheckingForUpdates", "Downloading", "Downloaded", "Ready">>

\* C15  Text conservation: for every trimEnd call, the text of the owned
\* tokens before the call is the text of the owned tokens after it followed
\* by the text of the returned tokens.
TextConservation ==
  [][(pc = "live" /\ lastOp' = "trimEnd") =>
       LET before == JoinedText(tokens)
           kept   == JoinedText(tokens')
           gone   == JoinedText(returned')
       IN /\ error' = "none"
          /\ Len(before) = Len(kept) + Len(gone)
          /\ \A p \in 1..Len(before) :
               before[p] = IF p <= Len(kept) THEN kept[p] ELSE gone[p - Len(kept)]]_vars

\* "a" followed by a space and a tab was split into "a" and the two characters
TextConservation_witness ==
  /\ pc = "live" /\ lastOp = "trimEnd"
  /\ JoinedText(tokens) = <<97>>
  /\ JoinedText(returned) = <<32, 9>>

\* C16  For a sequence built from ordered tokens, no trimEnd call changes
\* range.start, which stays the start of the first token it was built from,
\* and none moves range.end forward.
RangeOnlyShrinks ==
  [][(pc = "live" /\ lastOp' = "trimEnd" /\ Ordered(arrays["caller"])) =>
       /\ range'.startLineNumber = range.startLineNumber
       /\ range'.startColumn = range.startColumn
       /\ range'.startLineNumber = arrays["caller"][1].range.startLineNumber
       /\ range'.startColumn = arrays["caller"][1].range.startColumn
       /\ PosLeq(range'.endLineNumber, range'.endColumn,
                 range.endLineNumber, range.endColumn)]_vars

\* a partial trim of an ordered list moved range.end toward the start
RangeOnlyShrinks_witness ==
  /\ pc = "live" /\ lastOp = "trimEnd"
  /\ Ordered(arrays["caller"])
  /\ tokens[Len(tokens)].text # <<>>
  /\ range.endColumn < arrays["caller"][Len(arrays["caller"])].range.endColumn
  /\ range.startColumn = arrays["caller"][1].range.startColumn

\* C17  trimEnd leaves the array that was passed to the constructor as it is:
\* same length, same elements.
CallerArrayUntouched ==
  [][(pc = "live" /\ lastOp' = "trimEnd") =>
       arrays'["caller"] = arrays["caller"]]_vars

\* the sequence collapsed to the synthetic Word while the caller's array still
\* holds the tokens that were returned
CallerArrayUntouched_witness ==
  /\ pc = "live" /\ lastOp = "trimEnd"
  /\ mutations = 0
  /\ Len(returned) >= 2
  /\ arrays["caller"] = returned
  /\ Len(tokens) = 1 /\ tokens[1].text = <<>>

\* C18  The two implementations of trimEnd agree: on the same owned tokens
\* and range they return the same list and leave the same owned tokens and
\* the same range (also on an empty list).
VariantsAgree ==
  pc = "live" =>
     \A list \in {tokens, arrays["caller"], <<>>} :
        LET viaSplice  == trimEnd(list, range)
            viaReverse == trimEnd_part000(list, range)
        IN /\ viaSplice.returned = viaReverse.returned
           /\ viaSplice.tokens = viaReverse.tokens
           /\ viaSplice.range = viaReverse.range
           /\ viaSplice.error = viaReverse.error

\* the reverse implementation ran on [Tab, VerticalTab] and left what the
\* splice implementation computes for the constructor's argument
VariantsAgree_witness ==
  /\ pc = "live" /\ lastOp = "trimEnd" /\ variant = "reverse"
  /\ Len(returned) = 2
  /\ returned[1].kind = "Tab" /\ returned[2].kind = "VerticalTab"
  /\ returned = trimEnd(arrays["caller"], fullRange(arrays["caller"])).returned
  /\ tokens = trimEnd(arrays["caller"], fullRange(arrays["caller"])).tokens
  /\ range = trimEnd(arrays["caller"], fullRange(arrays["caller"])).range

====
